---------------------------- MODULE Spec2Model ----------------------------
(***************************************************************************)
(* Capture-session lifecycle manager of the antrea-capture agent.          *)
(*                                                                         *)
(* The repository holds several revisions of the controller.  Each is      *)
(* modelled as its own specification over the same state:                  *)
(*   Spec     src/antrea-capture/controller.go                             *)
(*   Spec000  src/unnamed/part_000                                         *)
(*   Spec003  src/unnamed/part_003                                         *)
(*   Spec004  src/unnamed/part_004, lines 1-316                            *)
(*   SpecMain src/antrea-capture/main.go, lines 57-233                     *)
(* SpecInformer is controller.go with the events the informer can deliver  *)
(* in the order it can deliver them; SpecReplay, SpecReplay000 and         *)
(* SpecReplay003 have two handler goroutines; SpecFair, SpecFairMonitors   *)
(* and Spec003Fair add fair scheduling; SpecRoundTrip is a start followed  *)
(* by the stop of the same pod; SpecCleanup is cleanupFiles, one file at a *)
(* time; SpecExtract is processPod's reading of the annotation;            *)
(* SpecDelete is controller.go with deletes delivered as pod or tombstone. *)
(*                                                                         *)
(* Threads: the informer's handler goroutines (Workers), the goroutine of  *)
(* Run that calls Shutdown ("sd"), and one monitor goroutine per spawned   *)
(* tcpdump process.  Strings are sequences of one-character strings, so    *)
(* that key building, name extraction, Atoi and glob matching are computed *)
(* the way the code computes them.                                         *)
(***************************************************************************)
EXTENDS Integers, Sequences, FiniteSets, TLC

VARIABLES
    captures,   \* Controller.captures: podKey -> process instance (0: no entry)
    mu,         \* Controller.mu: the thread that owns it, or "none"
    th,         \* per thread: program counter and the locals of its call
    proc,       \* per spawned tcpdump process: its arguments and OS state
    mon,        \* per process: position of its monitor goroutine
    files,      \* the capture files on disk: <<path, writing process>>
    shutdown,   \* Controller.stopCh is closed
    elapsed,    \* seconds Shutdown has spent in expired grace periods
    last,       \* per key: the pod as the informer's store holds it after the last
                \* event delivered
    hist        \* per process: who removed its entry, cleanups, stopCh closes,
                \* whether it was registered when Shutdown was called

vars == <<captures, mu, th, proc, mon, files, shutdown, elapsed, last, hist>>

----------------------------------------------------------------------------
(* Bounds *)

MaxProcs == 2

\* Longest annotation value the extraction is tried on
MaxLen == 3

Procs == 1..MaxProcs

\* The goroutine of Run, which calls Shutdown, and the informer's handler goroutines
Threads == DOMAIN th

Workers == Threads \ {"sd"}

----------------------------------------------------------------------------
(* Strings *)

Slash == <<"/">>

StrCapture == <<"/", "c", "a", "p", "t", "u", "r", "e", "-">>

StrCaptures == <<"/", "c", "a", "p", "t", "u", "r", "e", "s", "/", "c", "a", "p", "t", "u", "r", "e", "-">>

StrPcap == <<".", "p", "c", "a", "p">>

Digits == <<"0", "1", "2", "3", "4", "5", "6", "7", "8", "9">>

IsDigit(c) == \E i \in 1..10 : Digits[i] = c

DigitVal(c) == (CHOOSE i \in 1..10 : Digits[i] = c) - 1

Itoa(n) == <<Digits[n + 1]>>

\* strings.LastIndex(s, "/"), 1-based; 0 when there is none
LastIndex(s, c) ==
    IF \E i \in 1..Len(s) : s[i] = c
    THEN CHOOSE i \in 1..Len(s) : s[i] = c /\ \A j \in (i + 1)..Len(s) : s[j] # c
    ELSE 0

HasPrefix(s, p) == Len(s) >= Len(p) /\ SubSeq(s, 1, Len(p)) = p

\* filepath.Glob of "<prefix>*": the star matches any run of non-separator characters
GlobMatch(path, prefix) ==
    /\ HasPrefix(path, prefix)
    /\ \A i \in (Len(prefix) + 1)..Len(path) : path[i] # "/"

RECURSIVE DigitsValue(_)
DigitsValue(s) ==
    IF s = <<>> THEN 0
    ELSE 10 * DigitsValue(SubSeq(s, 1, Len(s) - 1)) + DigitVal(s[Len(s)])

\* strconv.Atoi: an optional sign, then one or more decimal digits
Atoi(s) ==
    LET signed == s # <<>> /\ s[1] \in {"+", "-"}
        body == IF signed THEN Tail(s) ELSE s
        ok == body # <<>> /\ \A i \in 1..Len(body) : IsDigit(body[i])
    IN  [err |-> ~ok,
         val |-> IF ~ok THEN 0
                 ELSE IF signed /\ s[1] = "-" THEN 0 - DigitsValue(body)
                 ELSE DigitsValue(body)]

----------------------------------------------------------------------------
(* Workloads and the events the informer delivers *)

Pods ==
    { [ns |-> <<"a">>, name |-> <<"p">>],
      [ns |-> <<"b">>, name |-> <<"p">>] }

\* Values of the tcpdump.antrea.io annotation; <<>> is the absent annotation
Annotations == { <<>>, <<"1">>, <<"2">>, <<"0">>, <<"-", "1">>, <<"x">> }

\* The annotation is there but is no positive integer
Invalid(annotation) ==
    annotation # <<>> /\ (Atoi(annotation).err \/ Atoi(annotation).val <= 0)

podKey(pod) == pod.ns \o Slash \o pod.name

PodKeys == { podKey(pod) : pod \in Pods }

NoPod == [ns |-> <<>>, name |-> <<>>]

----------------------------------------------------------------------------
(* State after NewController *)

IdleThread ==
    [pc |-> "idle", key |-> <<>>, pod |-> NoPod, old |-> <<>>, ann |-> <<>>, tomb |-> FALSE, mf |-> 0,
     cap |-> 0, done |-> FALSE, todo |-> {},
     matches |-> <<>>, matched |-> 0, failed |-> 0, denied |-> 0, gone |-> 0]

NoProc ==
    [key |-> <<>>, mf |-> 0, path |-> <<>>, st |-> "none",
     term |-> FALSE, kill |-> FALSE, nw |-> 0]

NoHist == [removedBy |-> "none", cleaned |-> 0, closed |-> 0, drain |-> FALSE]

\* No pod of the key is in the informer's store
NotStored == [known |-> FALSE, ann |-> <<>>]

NewController ==
    /\ captures = [k \in PodKeys |-> 0]
    /\ mu = "none"
    /\ th = [t \in {"w1", "sd"} |-> IdleThread]
    /\ proc = [p \in Procs |-> NoProc]
    /\ mon = [p \in Procs |-> "none"]
    /\ files = {}
    /\ shutdown = FALSE
    /\ elapsed = 0
    /\ last = [k \in PodKeys |-> NotStored]
    /\ hist = [p \in Procs |-> NoHist]

Init == NewController


----------------------------------------------------------------------------
(* The tcpdump processes: the operating system's side *)

Live(p) == proc[p].st = "running"

Exited(p) == proc[p].st \in {"zombie", "reaped"}

\* A running process exits: on its own, on SIGTERM, or on SIGKILL
ProcExit(p) ==
    /\ Live(p)
    /\ proc' = [proc EXCEPT ![p].st = "zombie"]
    /\ UNCHANGED <<captures, mu, th, mon, files, shutdown, elapsed, hist, last>>

\* tcpdump -C 1 -W n -w file: rotation file i of n is written as file<i>
WriteFile(fs, p, i) ==
    LET path == proc[p].path \o Itoa(i)
    IN  {f \in fs : f[1] # path} \cup {<<path, p>>}

\* The process fills its rotation files in order, proc[p].nw written so far
ProcWrite(p) ==
    /\ Live(p)
    /\ proc[p].nw < proc[p].mf
    /\ files' = WriteFile(files, p, proc[p].nw)
    /\ proc' = [proc EXCEPT ![p].nw = @ + 1]
    /\ UNCHANGED <<captures, mu, th, mon, shutdown, elapsed, hist, last>>

\* syscall.Kill(-pid, sig) as the process sees it: only a running process
\* takes a signal (a zombie ignores it, a reaped one is gone: ESRCH)
Signalled(pr, p, sig) ==
    IF pr[p].st # "running" THEN pr
    ELSE IF sig = "SIGTERM" THEN [pr EXCEPT ![p].term = TRUE]
    ELSE [pr EXCEPT ![p].kill = TRUE]

\* cmd.Wait returning collects the exit status of an exited process; the
\* kernel then forgets the process, its pending signals and its open files
Reaped(pr, p) ==
    [pr EXCEPT ![p].st = "reaped", ![p].term = FALSE, ![p].kill = FALSE, ![p].nw = 0]

----------------------------------------------------------------------------
(* Registry and bookkeeping helpers *)

FreshProc == CHOOSE p \in Procs : proc[p].st = "none" /\ \A q \in Procs : q < p => proc[q].st # "none"

CanSpawn == \E p \in Procs : proc[p].st = "none"

\* delete(c.captures, key), with a note of whose entry went and who took it
Deleted(h, key, who) ==
    IF captures[key] = 0 THEN h
    ELSE [h EXCEPT ![captures[key]].removedBy = who]

\* The history at the call of Shutdown: which processes are registered now
AtShutdown ==
    [p \in Procs |-> [hist[p] EXCEPT !.drain = \E k \in PodKeys : captures[k] = p]]

Goto(t, label) == [th EXCEPT ![t].pc = label]

Return(t) == [th EXCEPT ![t] = IdleThread]

----------------------------------------------------------------------------
(* Steps the revisions share, with what differs between them as parameters *)

\* A handler picks up the next event: the informer has not been stopped
Idle(t) == th[t].pc = "idle" /\ ~shutdown

\* The informer calls a handler with a pod: its annotation and, for an
\* update, the annotation of the old object
Handler(t, label, pod, oldAnnotation, annotation) ==
    th' = [th EXCEPT ![t] = [IdleThread EXCEPT !.pc = label, !.key = podKey(pod), !.pod = pod,
                                              !.old = oldAnnotation, !.ann = annotation]]

\* The call a handler makes next, with the locals it carries
Call(t, label, pod, maxFiles) ==
    th' = [th EXCEPT ![t] = [IdleThread EXCEPT !.pc = label, !.key = podKey(pod),
                                 !.pod = pod, !.mf = maxFiles]]

Started_OneFile(p, key, maxFiles, path) ==
    [proc EXCEPT ![p] = [key |-> key, mf |-> 1, path |-> path,
                         st |-> "running", term |-> FALSE, kill |-> FALSE, nw |-> 0]]

\* cmd.Start() of tcpdump -W maxFiles -w path: a new process, or an error
Started(p, key, maxFiles, path) ==
    [proc EXCEPT ![p] = [key |-> key, mf |-> maxFiles, path |-> path,
                         st |-> "running", term |-> FALSE, kill |-> FALSE, nw |-> 0]]

\* The start of a stop: (close(cap.stopCh) where there is one,) SIGTERM to the group
BeginStop(t, key, cap, closes) ==
    /\ hist' = IF closes THEN [hist EXCEPT ![cap].closed = @ + 1] ELSE hist
    /\ proc' = Signalled(proc, cap, "SIGTERM")
    /\ th' = [th EXCEPT ![t].pc = "select", ![t].key = key, ![t].cap = cap, ![t].done = FALSE]

Timeout_AfterExit(t, grace, label) ==
    /\ th[t].pc = "select"
    /\ proc' = Signalled(proc, th[t].cap, "SIGKILL")
    /\ th' = Goto(t, label)
    /\ elapsed' = IF t = "sd" THEN elapsed + grace ELSE elapsed
    /\ UNCHANGED <<captures, mu, mon, files, shutdown, hist, last>>

\* select: case <-time.After(grace), then SIGKILL to the group.  The grace
\* period runs out on a process that is still running: the notice of an exit
\* takes no time on the scale of the grace period.
Timeout(t, grace, label) ==
    /\ th[t].pc = "select"
    /\ Live(th[t].cap)
    /\ proc' = Signalled(proc, th[t].cap, "SIGKILL")
    /\ th' = Goto(t, label)
    /\ elapsed' = IF t = "sd" THEN elapsed + grace ELSE elapsed
    /\ UNCHANGED <<captures, mu, mon, files, shutdown, hist, last>>

\* The end of a stop made under the lock: delete(c.captures, podName), the
\* cleanup, then the caller's deferred Unlock or the next round of Shutdown's loop
FinishStop(t, remaining) ==
    /\ th[t].pc = "finish"
    /\ captures' = [captures EXCEPT ![th[t].key] = 0]
    /\ files' = remaining
    /\ hist' = [Deleted(hist, th[t].key, "stop") EXCEPT ![th[t].cap].cleaned = @ + 1]
    /\ IF t = "sd"
       THEN /\ th' = [th EXCEPT ![t] = [IdleThread EXCEPT !.pc = "range"]]
            /\ mu' = mu
       ELSE /\ th' = Return(t)
            /\ mu' = "none"
    /\ UNCHANGED <<proc, mon, shutdown, elapsed, last>>

----------------------------------------------------------------------------
(* src/antrea-capture/controller.go *)

GracePeriod == 5

captureFile(podName) == StrCapture \o podName \o StrPcap

\* cleanupFiles: the files left on disk after the glob and the removals
cleanupFiles(fs, key) ==
    LET podName == SubSeq(key, LastIndex(key, "/") + 1, Len(key))
        pattern == StrCapture \o podName \o StrPcap
    IN  {f \in fs : ~GlobMatch(f[1], pattern)}

processPod_ZeroAccepted(t, pod, annotation) ==
    LET parsed == Atoi(annotation)
    IN  IF annotation = <<>> \/ parsed.err \/ parsed.val < 0
        THEN Call(t, "stopCapture", pod, 0)
        ELSE Call(t, "processPod", pod, parsed.val)

\* processPod up to the point where it needs the registry lock
processPod(t, pod, annotation) ==
    LET parsed == Atoi(annotation)
    IN  IF annotation = <<>> \/ parsed.err \/ parsed.val <= 0
        THEN Call(t, "stopCapture", pod, 0)
        ELSE Call(t, "processPod", pod, parsed.val)

handlePodAdd(t) ==
    /\ Idle(t)
    /\ \E pod \in Pods, annotation \in Annotations : processPod(t, pod, annotation)
    /\ UNCHANGED <<captures, mu, proc, mon, files, shutdown, elapsed, hist, last>>

handlePodUpdate(t) ==
    /\ Idle(t)
    /\ \E pod \in Pods, oldAnnotation \in Annotations, newAnnotation \in Annotations :
          IF oldAnnotation # newAnnotation
          THEN processPod(t, pod, newAnnotation)
          ELSE th' = th
    /\ UNCHANGED <<captures, mu, proc, mon, files, shutdown, elapsed, hist, last>>

handlePodDelete(t) ==
    /\ Idle(t)
    /\ \E pod \in Pods : Call(t, "stopCapture", pod, 0)
    /\ UNCHANGED <<captures, mu, proc, mon, files, shutdown, elapsed, hist, last>>

\* processPod from c.mu.Lock() on: skip when an entry exists, else go and spawn
processPodLocked(t) ==
    /\ th[t].pc = "processPod"
    /\ mu = "none"
    /\ IF captures[th[t].key] # 0
       THEN /\ th' = Return(t)
            /\ mu' = mu
       ELSE /\ th' = Goto(t, "spawn")
            /\ mu' = t
    /\ UNCHANGED <<captures, proc, mon, files, shutdown, elapsed, hist, last>>

\* startCaptureInternal when cmd.Start() succeeds: the process runs, the entry
\* is registered and the monitor goroutine started
Spawned(t) ==
    /\ captures[th[t].key] = 0
    /\ CanSpawn
    /\ proc' = Started(FreshProc, th[t].key, th[t].mf, captureFile(th[t].pod.name))
    /\ captures' = [captures EXCEPT ![th[t].key] = FreshProc]
    /\ mon' = [mon EXCEPT ![FreshProc] = "wait"]

SpawnFailed_Registers(t) ==
    /\ CanSpawn
    /\ captures' = [captures EXCEPT ![th[t].key] = FreshProc]
    /\ UNCHANGED <<proc, mon>>

\* startCaptureInternal when an entry exists or cmd.Start() fails: log and return
SpawnFailed(t) ==
    UNCHANGED <<proc, captures, mon>>

\* startCaptureInternal: nothing when an entry exists; else cmd.Start (which may
\* fail), the registration, the monitor goroutine; processPod's deferred Unlock follows
startCaptureInternal(t) ==
    /\ th[t].pc = "spawn"
    /\ (Spawned(t) \/ SpawnFailed(t))
    /\ mu' = "none"
    /\ th' = Return(t)
    /\ UNCHANGED <<files, shutdown, elapsed, hist, last>>

\* the monitor goroutine: cmd.Wait() returns once the process has exited
monitorWait(p) ==
    /\ mon[p] = "wait"
    /\ Exited(p)
    /\ proc' = Reaped(proc, p)
    /\ mon' = [mon EXCEPT ![p] = "lock"]
    /\ UNCHANGED <<captures, mu, th, files, shutdown, elapsed, hist, last>>

monitorGuard_Never(p) == FALSE

\* whether the monitor's delete is to go ahead: the code asks nothing
monitorGuard(p) == TRUE

\* the monitor goroutine: Lock, delete(c.captures, podKey), Unlock
monitorDelete(p) ==
    /\ mon[p] = "lock"
    /\ mu = "none"
    /\ IF monitorGuard(p)
       THEN /\ captures' = [captures EXCEPT ![proc[p].key] = 0]
            /\ hist' = Deleted(hist, proc[p].key,
                               IF captures[proc[p].key] = p THEN "monitor" ELSE "stale")
       ELSE UNCHANGED <<captures, hist>>
    /\ mon' = [mon EXCEPT ![p] = "done"]
    /\ UNCHANGED <<mu, th, proc, files, shutdown, elapsed, last>>

stopCapture_CleansAnyway(t) ==
    /\ th[t].pc = "stopCapture"
    /\ mu = "none"
    /\ IF captures[th[t].key] = 0
       THEN /\ th' = Return(t)
            /\ files' = cleanupFiles(files, th[t].key)
            /\ UNCHANGED <<mu, proc, hist>>
       ELSE /\ mu' = t
            /\ BeginStop(t, th[t].key, captures[th[t].key], TRUE)
            /\ files' = files
    /\ UNCHANGED <<captures, mon, shutdown, elapsed, last>>

\* stopCapture: Lock, look the key up, and enter stopCaptureInternal
stopCapture(t) ==
    /\ th[t].pc = "stopCapture"
    /\ mu = "none"
    /\ IF captures[th[t].key] = 0
       THEN /\ th' = Return(t)
            /\ UNCHANGED <<mu, proc, hist>>
       ELSE /\ mu' = t
            /\ BeginStop(t, th[t].key, captures[th[t].key], TRUE)
    /\ UNCHANGED <<captures, mon, files, shutdown, elapsed, last>>

stopWaiter_AfterMonitor(t) ==
    /\ th[t].pc \in {"select", "killed"}
    /\ ~th[t].done
    /\ mon[th[t].cap] = "done"
    /\ th' = [th EXCEPT ![t].done = TRUE]
    /\ UNCHANGED <<captures, mu, proc, mon, files, shutdown, elapsed, hist, last>>

\* go func() { _ = cap.cmd.Wait(); close(done) }()
stopWaiter(t) ==
    /\ th[t].pc \in {"select", "killed"}
    /\ ~th[t].done
    /\ Exited(th[t].cap)
    /\ proc' = Reaped(proc, th[t].cap)
    /\ th' = [th EXCEPT ![t].done = TRUE]
    /\ UNCHANGED <<captures, mu, mon, files, shutdown, elapsed, hist, last>>

\* select: case <-done
selectDone(t) ==
    /\ th[t].pc = "select"
    /\ th[t].done
    /\ th' = Goto(t, "finish")
    /\ UNCHANGED <<captures, mu, proc, mon, files, shutdown, elapsed, hist, last>>

selectTimeout_NoKill(t) ==
    /\ th[t].pc = "select"
    /\ Live(th[t].cap)
    /\ th' = Goto(t, "killed")
    /\ UNCHANGED <<captures, mu, proc, mon, files, shutdown, elapsed, hist, last>>

selectTimeout_NoWait(t) == Timeout(t, GracePeriod, "finish")

\* select: case <-time.After(5 * time.Second): SIGKILL, and on to <-done
selectTimeout(t) == Timeout(t, GracePeriod, "killed")

\* <-done after the SIGKILL
killedDone(t) ==
    /\ th[t].pc = "killed"
    /\ th[t].done
    /\ th' = Goto(t, "finish")
    /\ UNCHANGED <<captures, mu, proc, mon, files, shutdown, elapsed, hist, last>>

\* stopCaptureInternal's end: delete(c.captures, podName); c.cleanupFiles(podName)
stopCaptureInternal(t) == FinishStop(t, cleanupFiles(files, th[t].key))

\* Shutdown: close(c.stopCh)
Shutdown ==
    /\ th["sd"].pc = "idle"
    /\ ~shutdown
    /\ shutdown' = TRUE
    /\ th' = Goto("sd", "lock")
    /\ hist' = AtShutdown
    /\ UNCHANGED <<captures, mu, proc, mon, files, elapsed, last>>

\* Shutdown: c.mu.Lock()
ShutdownLock ==
    /\ th["sd"].pc = "lock"
    /\ mu = "none"
    /\ mu' = "sd"
    /\ th' = Goto("sd", "range")
    /\ UNCHANGED <<captures, proc, mon, files, shutdown, elapsed, hist, last>>

\* One round of the range over c.captures, or the deferred Unlock at its end
Range(closes) ==
    /\ th["sd"].pc = "range"
    /\ IF \E k \in PodKeys : captures[k] # 0
       THEN /\ \E k \in PodKeys :
                  /\ captures[k] # 0
                  /\ BeginStop("sd", k, captures[k], closes)
            /\ mu' = mu
       ELSE /\ th' = Goto("sd", "returned")
            /\ mu' = "none"
            /\ UNCHANGED <<proc, hist>>
    /\ UNCHANGED <<captures, mon, files, shutdown, elapsed, last>>

ShutdownRange == Range(TRUE)

Environment ==
    \/ \E p \in Procs : ProcExit(p)
    \/ \E p \in Procs : ProcWrite(p)

Next ==
    \/ \E t \in Workers : handlePodAdd(t)
    \/ \E t \in Workers : handlePodUpdate(t)
    \/ \E t \in Workers : handlePodDelete(t)
    \/ \E t \in Workers : processPodLocked(t)
    \/ \E t \in Workers : startCaptureInternal(t)
    \/ \E t \in Workers : stopCapture(t)
    \/ \E t \in Threads : stopWaiter(t)
    \/ \E t \in Threads : selectDone(t)
    \/ \E t \in Threads : selectTimeout(t)
    \/ \E t \in Threads : killedDone(t)
    \/ \E t \in Threads : stopCaptureInternal(t)
    \/ Shutdown
    \/ ShutdownLock
    \/ ShutdownRange
    \/ \E p \in Procs : monitorWait(p)
    \/ \E p \in Procs : monitorDelete(p)
    \/ Environment

Spec == Init /\ [][Next]_vars

----------------------------------------------------------------------------
(* src/unnamed/part_000 *)

GracePeriod000 == 5

captureFile000(podName) == StrCaptures \o podName \o StrPcap

cleanupFiles000(fs, key) ==
    LET podName == SubSeq(key, LastIndex(key, "/") + 1, Len(key))
        pattern == StrCaptures \o podName \o StrPcap
    IN  {f \in fs : ~GlobMatch(f[1], pattern)}

\* processPod: the parse, then the look-up under RLock
processPod000(t, pod, annotation) ==
    LET parsed == Atoi(annotation)
    IN  IF annotation = <<>> \/ parsed.err \/ parsed.val <= 0
        THEN Call(t, "stopCapture", pod, 0)
        ELSE Call(t, "processPod", pod, parsed.val)

handlePodAdd000(t) ==
    /\ Idle(t)
    /\ \E pod \in Pods, annotation \in Annotations : processPod000(t, pod, annotation)
    /\ UNCHANGED <<captures, mu, proc, mon, files, shutdown, elapsed, hist, last>>

handlePodUpdate000(t) ==
    /\ Idle(t)
    /\ \E pod \in Pods, oldAnnotation \in Annotations, newAnnotation \in Annotations :
          IF oldAnnotation # newAnnotation
          THEN processPod000(t, pod, newAnnotation)
          ELSE th' = th
    /\ UNCHANGED <<captures, mu, proc, mon, files, shutdown, elapsed, hist, last>>

handlePodDelete000(t) ==
    /\ Idle(t)
    /\ \E pod \in Pods : Call(t, "stopCapture", pod, 0)
    /\ UNCHANGED <<captures, mu, proc, mon, files, shutdown, elapsed, hist, last>>

\* processPod: RLock, look the key up, RUnlock; skip when an entry exists
processPodRLocked000(t) ==
    /\ th[t].pc = "processPod"
    /\ mu = "none"
    /\ th' = IF captures[th[t].key] # 0 THEN Return(t) ELSE Goto(t, "startCapture")
    /\ UNCHANGED <<captures, mu, proc, mon, files, shutdown, elapsed, hist, last>>

\* startCapture that locks but does not look the key up again
startCaptureLock000_NoRecheck(t) ==
    /\ th[t].pc = "startCapture"
    /\ mu = "none"
    /\ th' = Goto(t, "spawn")
    /\ mu' = t
    /\ UNCHANGED <<captures, proc, mon, files, shutdown, elapsed, hist, last>>

\* startCapture: Lock and look the key up again
startCaptureLock000(t) ==
    /\ th[t].pc = "startCapture"
    /\ mu = "none"
    /\ IF captures[th[t].key] # 0
       THEN /\ th' = Return(t)
            /\ mu' = mu
       ELSE /\ th' = Goto(t, "spawn")
            /\ mu' = t
    /\ UNCHANGED <<captures, proc, mon, files, shutdown, elapsed, hist, last>>

\* startCapture: cmd.Start, the registration, the monitor goroutine, the Unlock
startCapture000(t) ==
    /\ th[t].pc = "spawn"
    /\ \/ /\ CanSpawn
          /\ proc' = Started(FreshProc, th[t].key, th[t].mf, captureFile000(th[t].pod.name))
          /\ captures' = [captures EXCEPT ![th[t].key] = FreshProc]
          /\ mon' = [mon EXCEPT ![FreshProc] = "wait"]
       \/ UNCHANGED <<proc, captures, mon>>
    /\ mu' = "none"
    /\ th' = Return(t)
    /\ UNCHANGED <<files, shutdown, elapsed, hist, last>>

monitorWait000(p) ==
    /\ mon[p] = "wait"
    /\ Exited(p)
    /\ proc' = Reaped(proc, p)
    /\ mon' = [mon EXCEPT ![p] = "lock"]
    /\ UNCHANGED <<captures, mu, th, files, shutdown, elapsed, hist, last>>

monitorDelete000(p) ==
    /\ mon[p] = "lock"
    /\ mu = "none"
    /\ captures' = [captures EXCEPT ![proc[p].key] = 0]
    /\ hist' = Deleted(hist, proc[p].key,
                       IF captures[proc[p].key] = p THEN "monitor" ELSE "stale")
    /\ mon' = [mon EXCEPT ![p] = "done"]
    /\ UNCHANGED <<mu, th, proc, files, shutdown, elapsed, last>>

stopCapture000(t) ==
    /\ th[t].pc = "stopCapture"
    /\ mu = "none"
    /\ IF captures[th[t].key] = 0
       THEN /\ th' = Return(t)
            /\ UNCHANGED <<mu, proc, hist>>
       ELSE /\ mu' = t
            /\ BeginStop(t, th[t].key, captures[th[t].key], FALSE)
    /\ UNCHANGED <<captures, mon, files, shutdown, elapsed, last>>

\* go func() { done <- cmd.Wait() }()
stopWaiter000(t) ==
    /\ th[t].pc = "select"
    /\ ~th[t].done
    /\ Exited(th[t].cap)
    /\ proc' = Reaped(proc, th[t].cap)
    /\ th' = [th EXCEPT ![t].done = TRUE]
    /\ UNCHANGED <<captures, mu, mon, files, shutdown, elapsed, hist, last>>

selectDone000(t) ==
    /\ th[t].pc = "select"
    /\ th[t].done
    /\ th' = Goto(t, "finish")
    /\ UNCHANGED <<captures, mu, proc, mon, files, shutdown, elapsed, hist, last>>

\* select: case <-time.After(5 * time.Second): SIGKILL, and straight on
selectTimeout000(t) == Timeout(t, GracePeriod000, "finish")

stopCaptureInternal000(t) == FinishStop(t, cleanupFiles000(files, th[t].key))

Shutdown000 ==
    /\ th["sd"].pc = "idle"
    /\ ~shutdown
    /\ shutdown' = TRUE
    /\ th' = Goto("sd", "lock")
    /\ hist' = AtShutdown
    /\ UNCHANGED <<captures, mu, proc, mon, files, elapsed, last>>

ShutdownLock000 ==
    /\ th["sd"].pc = "lock"
    /\ mu = "none"
    /\ mu' = "sd"
    /\ th' = Goto("sd", "range")
    /\ UNCHANGED <<captures, proc, mon, files, shutdown, elapsed, hist, last>>

ShutdownRange000 == Range(FALSE)

Next000 ==
    \/ \E t \in Workers : handlePodAdd000(t)
    \/ \E t \in Workers : handlePodUpdate000(t)
    \/ \E t \in Workers : handlePodDelete000(t)
    \/ \E t \in Workers : processPodRLocked000(t)
    \/ \E t \in Workers : startCaptureLock000(t)
    \/ \E t \in Workers : startCapture000(t)
    \/ \E t \in Workers : stopCapture000(t)
    \/ \E t \in Threads : stopWaiter000(t)
    \/ \E t \in Threads : selectDone000(t)
    \/ \E t \in Threads : selectTimeout000(t)
    \/ \E t \in Threads : stopCaptureInternal000(t)
    \/ Shutdown000
    \/ ShutdownLock000
    \/ ShutdownRange000
    \/ \E p \in Procs : monitorWait000(p)
    \/ \E p \in Procs : monitorDelete000(p)
    \/ Environment

Spec000 == Init /\ [][Next000]_vars

----------------------------------------------------------------------------
(* src/unnamed/part_003 *)

GracePeriod003 == 3

captureFile003(pod) == StrCapture \o pod.ns \o <<"-">> \o pod.name \o StrPcap

\* capture.done is closed by the monitor right after its cmd.Wait() returns
doneClosed(p) == mon[p] \in {"lock", "done"}

\* onPodAddOrUpdate up to the point where it needs the registry lock
onPodAddOrUpdate(t) ==
    /\ Idle(t)
    /\ \E pod \in Pods, annotation \in Annotations :
          LET parsed == Atoi(annotation)
          IN  IF annotation = <<>> \/ parsed.err \/ parsed.val <= 0
              THEN Call(t, "stopCaptureForPodKey", pod, 0)
              ELSE Call(t, "onPodAddOrUpdate", pod, parsed.val)
    /\ UNCHANGED <<captures, mu, proc, mon, files, shutdown, elapsed, hist, last>>

onPodDelete(t) ==
    /\ Idle(t)
    /\ \E pod \in Pods : Call(t, "stopCaptureForPodKey", pod, 0)
    /\ UNCHANGED <<captures, mu, proc, mon, files, shutdown, elapsed, hist, last>>

onPodAddOrUpdateLocked_AlwaysReplace(t) ==
    /\ th[t].pc = "onPodAddOrUpdate"
    /\ mu = "none"
    /\ LET existing == captures[th[t].key] IN
       IF existing # 0
       THEN /\ captures' = [captures EXCEPT ![th[t].key] = 0]
            /\ hist' = Deleted(hist, th[t].key, "stop")
            /\ th' = [th EXCEPT ![t].pc = "terminate", ![t].cap = existing]
       ELSE /\ th' = Goto(t, "startCapture")
            /\ UNCHANGED <<captures, hist>>
    /\ UNCHANGED <<mu, proc, mon, files, shutdown, elapsed, last>>

\* onPodAddOrUpdate from Lock to Unlock: keep an entry with the same maxFiles,
\* take out one with another, and go on to stop the old and start the new
onPodAddOrUpdateLocked(t) ==
    /\ th[t].pc = "onPodAddOrUpdate"
    /\ mu = "none"
    /\ LET existing == captures[th[t].key] IN
       IF existing # 0 /\ proc[existing].mf = th[t].mf
       THEN /\ th' = Return(t)
            /\ UNCHANGED <<captures, hist>>
       ELSE IF existing # 0
       THEN /\ captures' = [captures EXCEPT ![th[t].key] = 0]
            /\ hist' = Deleted(hist, th[t].key, "stop")
            /\ th' = [th EXCEPT ![t].pc = "terminate", ![t].cap = existing]
       ELSE /\ th' = Goto(t, "startCapture")
            /\ UNCHANGED <<captures, hist>>
    /\ UNCHANGED <<mu, proc, mon, files, shutdown, elapsed, last>>

\* stopCaptureForPodKey from Lock to Unlock: take the entry out of the registry
stopCaptureForPodKey(t) ==
    /\ th[t].pc = "stopCaptureForPodKey"
    /\ mu = "none"
    /\ IF captures[th[t].key] # 0
       THEN /\ captures' = [captures EXCEPT ![th[t].key] = 0]
            /\ hist' = Deleted(hist, th[t].key, "stop")
            /\ th' = [th EXCEPT ![t].pc = "terminate", ![t].cap = captures[th[t].key],
                                ![t].mf = 0]
       ELSE /\ th' = Return(t)
            /\ UNCHANGED <<captures, hist>>
    /\ UNCHANGED <<mu, proc, mon, files, shutdown, elapsed, last>>

\* terminateProcessGroup: the first select, on capture.done with a default
terminateProcessGroup(t) ==
    /\ th[t].pc = "terminate"
    /\ th' = Goto(t, IF doneClosed(th[t].cap) THEN "glob" ELSE "sigterm")
    /\ UNCHANGED <<captures, mu, proc, mon, files, shutdown, elapsed, hist, last>>

\* terminateProcessGroup: SIGTERM to the group
terminateSigterm(t) ==
    /\ th[t].pc = "sigterm"
    /\ proc' = Signalled(proc, th[t].cap, "SIGTERM")
    /\ th' = Goto(t, "select")
    /\ UNCHANGED <<captures, mu, mon, files, shutdown, elapsed, hist, last>>

\* terminateProcessGroup: select, case <-capture.done
terminateDone(t) ==
    /\ th[t].pc = "select"
    /\ doneClosed(th[t].cap)
    /\ th' = Goto(t, "glob")
    /\ UNCHANGED <<captures, mu, proc, mon, files, shutdown, elapsed, hist, last>>

\* terminateProcessGroup: select, case <-time.After(3 * time.Second): SIGKILL
terminateTimeout(t) == Timeout(t, GracePeriod003, "killed")

\* terminateProcessGroup: <-capture.done after the SIGKILL
terminateKilled(t) ==
    /\ th[t].pc = "killed"
    /\ doneClosed(th[t].cap)
    /\ th' = Goto(t, "glob")
    /\ UNCHANGED <<captures, mu, proc, mon, files, shutdown, elapsed, hist, last>>

\* stopCaptureProcess after terminateProcessGroup: glob capture.captureGlob and
\* remove the matches; then back in the caller
stopCaptureProcess(t) ==
    /\ th[t].pc = "glob"
    /\ files' = {f \in files : ~GlobMatch(f[1], proc[th[t].cap].path)}
    /\ hist' = [hist EXCEPT ![th[t].cap].cleaned = @ + 1]
    /\ th' = IF t = "sd" THEN [th EXCEPT ![t].pc = "drain", ![t].cap = 0]
             ELSE IF th[t].mf > 0 THEN [th EXCEPT ![t].pc = "startCapture", ![t].cap = 0]
             ELSE Return(t)
    /\ UNCHANGED <<captures, mu, proc, mon, shutdown, elapsed, last>>

\* startCapture up to cmd.Start(): no pod IP, a failed start, or a new process
startCapture(t) ==
    /\ th[t].pc = "startCapture"
    /\ \/ /\ CanSpawn
          /\ proc' = Started(FreshProc, th[t].key, th[t].mf, captureFile003(th[t].pod))
          /\ th' = [th EXCEPT ![t].pc = "register", ![t].cap = FreshProc]
       \/ /\ th' = Return(t)
          /\ proc' = proc
    /\ UNCHANGED <<captures, mu, mon, files, shutdown, elapsed, hist, last>>

\* startCapture: Lock, c.captures[podKey] = the new capture, Unlock, go monitor
startCaptureRegister(t) ==
    /\ th[t].pc = "register"
    /\ mu = "none"
    /\ captures' = [captures EXCEPT ![th[t].key] = th[t].cap]
    /\ hist' = Deleted(hist, th[t].key, "overwritten")
    /\ mon' = [mon EXCEPT ![th[t].cap] = "wait"]
    /\ th' = Return(t)
    /\ UNCHANGED <<mu, proc, files, shutdown, elapsed, last>>

\* the monitor goroutine: cmd.Wait() returns, close(done)
monitorWait003(p) ==
    /\ mon[p] = "wait"
    /\ Exited(p)
    /\ proc' = Reaped(proc, p)
    /\ mon' = [mon EXCEPT ![p] = "lock"]
    /\ UNCHANGED <<captures, mu, th, files, shutdown, elapsed, hist, last>>

\* the monitor goroutine: Lock, delete(c.captures, podKey), Unlock
monitorDelete003(p) ==
    /\ mon[p] = "lock"
    /\ mu = "none"
    /\ captures' = [captures EXCEPT ![proc[p].key] = 0]
    /\ hist' = Deleted(hist, proc[p].key,
                       IF captures[proc[p].key] = p THEN "monitor" ELSE "stale")
    /\ mon' = [mon EXCEPT ![p] = "done"]
    /\ UNCHANGED <<mu, th, proc, files, shutdown, elapsed, last>>

\* Shutdown: close(c.stopCh)
Shutdown003 ==
    /\ th["sd"].pc = "idle"
    /\ ~shutdown
    /\ shutdown' = TRUE
    /\ th' = Goto("sd", "lock")
    /\ hist' = AtShutdown
    /\ UNCHANGED <<captures, mu, proc, mon, files, elapsed, last>>

\* Shutdown from Lock to Unlock: move every entry of the registry to a slice
ShutdownSnapshot ==
    /\ th["sd"].pc = "lock"
    /\ mu = "none"
    /\ th' = [th EXCEPT !["sd"].pc = "drain",
                        !["sd"].todo = {captures[k] : k \in PodKeys} \ {0}]
    /\ captures' = [k \in PodKeys |-> 0]
    /\ hist' = [p \in Procs |->
                  IF \E k \in PodKeys : captures[k] = p
                  THEN [hist[p] EXCEPT !.removedBy = "stop"] ELSE hist[p]]
    /\ UNCHANGED <<mu, proc, mon, files, shutdown, elapsed, last>>

\* Shutdown: the loop over the slice, one stopCaptureProcess after the other
ShutdownDrain ==
    /\ th["sd"].pc = "drain"
    /\ IF th["sd"].todo = {}
       THEN th' = Goto("sd", "returned")
       ELSE \E p \in th["sd"].todo :
               th' = [th EXCEPT !["sd"].pc = "terminate", !["sd"].cap = p,
                                !["sd"].key = proc[p].key, !["sd"].todo = @ \ {p}]
    /\ UNCHANGED <<captures, mu, proc, mon, files, shutdown, elapsed, hist, last>>

Next003 ==
    \/ \E t \in Workers : onPodAddOrUpdate(t)
    \/ \E t \in Workers : onPodDelete(t)
    \/ \E t \in Workers : onPodAddOrUpdateLocked(t)
    \/ \E t \in Workers : stopCaptureForPodKey(t)
    \/ \E t \in Workers : startCapture(t)
    \/ \E t \in Workers : startCaptureRegister(t)
    \/ \E t \in Threads : terminateProcessGroup(t)
    \/ \E t \in Threads : terminateSigterm(t)
    \/ \E t \in Threads : terminateDone(t)
    \/ \E t \in Threads : terminateTimeout(t)
    \/ \E t \in Threads : terminateKilled(t)
    \/ \E t \in Threads : stopCaptureProcess(t)
    \/ Shutdown003
    \/ ShutdownSnapshot
    \/ ShutdownDrain
    \/ \E p \in Procs : monitorWait003(p)
    \/ \E p \in Procs : monitorDelete003(p)
    \/ Environment

Spec003 == Init /\ [][Next003]_vars

----------------------------------------------------------------------------
(* src/unnamed/part_004, lines 1-316: the revision with captureProcess.stopped.
   Its handlers, processPod, startCaptureInternal, the monitor's cmd.Wait, the
   select of stopCaptureInternal, cleanupFiles and the first half of Shutdown do
   what those of controller.go do, and are the steps defined for controller.go. *)

GracePeriod004 == 5

\* cap.stopped: set exactly where cap.stopCh is closed, under cap.mu
stopped(p) == hist[p].closed > 0

\* the monitor goroutine that deletes and closes whether or not cap.stopped is set
monitorDelete004_NoStoppedTest(p) ==
    /\ mon[p] = "lock"
    /\ mu = "none"
    /\ captures' = [captures EXCEPT ![proc[p].key] = 0]
    /\ hist' = [Deleted(hist, proc[p].key, "monitor") EXCEPT ![p].closed = @ + 1]
    /\ mon' = [mon EXCEPT ![p] = "done"]
    /\ UNCHANGED <<mu, th, proc, files, shutdown, elapsed, last>>

\* the monitor goroutine: c.mu.Lock, cap.mu.Lock; if !cap.stopped: delete,
\* stopped = true, close(cap.stopCh); the Unlocks
monitorDelete004(p) ==
    /\ mon[p] = "lock"
    /\ mu = "none"
    /\ IF ~stopped(p)
       THEN /\ captures' = [captures EXCEPT ![proc[p].key] = 0]
            /\ hist' = [Deleted(hist, proc[p].key,
                                 IF captures[proc[p].key] = p THEN "monitor" ELSE "stale")
                           EXCEPT ![p].closed = @ + 1]
       ELSE UNCHANGED <<captures, hist>>
    /\ mon' = [mon EXCEPT ![p] = "done"]
    /\ UNCHANGED <<mu, th, proc, files, shutdown, elapsed, last>>

\* stopCapture into stopCaptureInternal: nothing for a missing entry or one
\* already stopped; else stopped = true, close(cap.stopCh), SIGTERM
stopCapture004(t) ==
    /\ th[t].pc = "stopCapture"
    /\ mu = "none"
    /\ IF captures[th[t].key] = 0 \/ stopped(captures[th[t].key])
       THEN /\ th' = Return(t)
            /\ UNCHANGED <<mu, proc, hist>>
       ELSE /\ mu' = t
            /\ BeginStop(t, th[t].key, captures[th[t].key], TRUE)
    /\ UNCHANGED <<captures, mon, files, shutdown, elapsed, last>>

selectTimeout004(t) == Timeout(t, GracePeriod004, "killed")

stopCaptureInternal004(t) == FinishStop(t, cleanupFiles(files, th[t].key))

\* One round of the range over c.captures (an entry already stopped is passed
\* over), or the deferred Unlock at its end
ShutdownRange004 ==
    /\ th["sd"].pc = "range"
    /\ IF \E k \in PodKeys : captures[k] # 0 /\ ~stopped(captures[k])
       THEN /\ \E k \in PodKeys :
                  /\ captures[k] # 0 /\ ~stopped(captures[k])
                  /\ BeginStop("sd", k, captures[k], TRUE)
            /\ mu' = mu
       ELSE /\ th' = Goto("sd", "returned")
            /\ mu' = "none"
            /\ UNCHANGED <<proc, hist>>
    /\ UNCHANGED <<captures, mon, files, shutdown, elapsed, last>>

Next004 ==
    \/ \E t \in Workers : handlePodAdd(t)
    \/ \E t \in Workers : handlePodUpdate(t)
    \/ \E t \in Workers : handlePodDelete(t)
    \/ \E t \in Workers : processPodLocked(t)
    \/ \E t \in Workers : startCaptureInternal(t)
    \/ \E t \in Workers : stopCapture004(t)
    \/ \E t \in Threads : stopWaiter(t)
    \/ \E t \in Threads : selectDone(t)
    \/ \E t \in Threads : selectTimeout004(t)
    \/ \E t \in Threads : killedDone(t)
    \/ \E t \in Threads : stopCaptureInternal004(t)
    \/ Shutdown
    \/ ShutdownLock
    \/ ShutdownRange004
    \/ \E p \in Procs : monitorWait(p)
    \/ \E p \in Procs : monitorDelete004(p)
    \/ Environment

Spec004 == Init /\ [][Next004]_vars

----------------------------------------------------------------------------
(* src/antrea-capture/main.go, lines 57-233: the revision that enters the pod's
   network namespace.  A handler's call and its body up to the first lock are
   two steps, so that what the body does with the annotation shows.  From the
   lock of processPod on, its steps are those of controller.go (findPid failing
   is one more way for startCaptureInternal to return without a process), but
   for stopCapture, which is that of part_000 (no stop channel), the grace
   period, and the stop of every entry by Shutdown. *)

GracePeriodMain == 3

\* AddFunc and UpdateFunc: c.processPod(pod) is called
addOrUpdateMain(t) ==
    /\ Idle(t)
    /\ \E pod \in Pods, annotation \in Annotations : Handler(t, "processPodMain", pod, <<>>, annotation)
    /\ UNCHANGED <<captures, mu, proc, mon, files, shutdown, elapsed, hist, last>>

\* DeleteFunc: c.stopCapture(podKey)
deleteMain(t) ==
    /\ Idle(t)
    /\ \E pod \in Pods : Call(t, "stopCapture", pod, 0)
    /\ UNCHANGED <<captures, mu, proc, mon, files, shutdown, elapsed, hist, last>>

\* processPod up to the lock: stop for no annotation, return for an invalid one
processPodMain(t) ==
    /\ th[t].pc = "processPodMain"
    /\ LET parsed == Atoi(th[t].ann)
       IN  IF th[t].ann = <<>>
           THEN Call(t, "stopCapture", th[t].pod, 0)
           ELSE IF parsed.err \/ parsed.val <= 0
           THEN th' = Return(t)
           ELSE Call(t, "processPod", th[t].pod, parsed.val)
    /\ UNCHANGED <<captures, mu, proc, mon, files, shutdown, elapsed, hist, last>>

selectTimeoutMain(t) == Timeout(t, GracePeriodMain, "killed")

stopCaptureInternalMain(t) == FinishStop(t, cleanupFiles(files, th[t].key))

ShutdownRangeMain == Range(FALSE)

NextMain ==
    \/ \E t \in Workers : addOrUpdateMain(t)
    \/ \E t \in Workers : deleteMain(t)
    \/ \E t \in Workers : processPodMain(t)
    \/ \E t \in Workers : processPodLocked(t)
    \/ \E t \in Workers : startCaptureInternal(t)
    \/ \E t \in Workers : stopCapture000(t)
    \/ \E t \in Threads : stopWaiter(t)
    \/ \E t \in Threads : selectDone(t)
    \/ \E t \in Threads : selectTimeoutMain(t)
    \/ \E t \in Threads : killedDone(t)
    \/ \E t \in Threads : stopCaptureInternalMain(t)
    \/ Shutdown
    \/ ShutdownLock
    \/ ShutdownRangeMain
    \/ \E p \in Procs : monitorWait(p)
    \/ \E p \in Procs : monitorDelete(p)
    \/ Environment

SpecMain == Init /\ [][NextMain]_vars

----------------------------------------------------------------------------
(* src/antrea-capture/controller.go under the informer's delivery contract: an
   add for a pod the store does not hold, an update (a change, or the resync
   of every time.Minute with the same object as old and new) or a delete for
   one it holds.  A handler's call and its body are two steps.  The capture
   files play no part here: the processes run and exit without writing. *)

\* What the last event delivered for the key asks for: a rotation count, or 0 for no session
Desired(k) ==
    LET parsed == Atoi(last[k].ann)
    IN  IF ~last[k].known \/ last[k].ann = <<>> \/ parsed.err \/ parsed.val <= 0
        THEN 0
        ELSE parsed.val

Stored(k, annotation) == [last EXCEPT ![k] = [known |-> TRUE, ann |-> annotation]]

informerAdd(t) ==
    /\ Idle(t)
    /\ \E pod \in Pods, annotation \in Annotations :
          /\ ~last[podKey(pod)].known
          /\ Handler(t, "handlePodAdd", pod, <<>>, annotation)
          /\ last' = Stored(podKey(pod), annotation)
    /\ UNCHANGED <<captures, mu, proc, mon, files, shutdown, elapsed, hist>>

informerUpdate(t) ==
    /\ Idle(t)
    /\ \E pod \in Pods, annotation \in Annotations :
          /\ last[podKey(pod)].known
          /\ Handler(t, "handlePodUpdate", pod, last[podKey(pod)].ann, annotation)
          /\ last' = Stored(podKey(pod), annotation)
    /\ UNCHANGED <<captures, mu, proc, mon, files, shutdown, elapsed, hist>>

informerDelete(t) ==
    /\ Idle(t)
    /\ \E pod \in Pods :
          /\ last[podKey(pod)].known
          /\ Handler(t, "handlePodDelete", pod, <<>>, <<>>)
          /\ last' = [last EXCEPT ![podKey(pod)] = NotStored]
    /\ UNCHANGED <<captures, mu, proc, mon, files, shutdown, elapsed, hist>>

\* handlePodAdd: c.processPod(pod)
handlePodAddBody(t) ==
    /\ th[t].pc = "handlePodAdd"
    /\ processPod(t, th[t].pod, th[t].ann)
    /\ UNCHANGED <<captures, mu, proc, mon, files, shutdown, elapsed, hist, last>>

\* handlePodUpdate: c.processPod(newPod) only if the annotation changed
handlePodUpdateBody(t) ==
    /\ th[t].pc = "handlePodUpdate"
    /\ IF th[t].old # th[t].ann
       THEN processPod(t, th[t].pod, th[t].ann)
       ELSE th' = Return(t)
    /\ UNCHANGED <<captures, mu, proc, mon, files, shutdown, elapsed, hist, last>>

\* handlePodDelete: c.stopCapture(podKey)
handlePodDeleteBody(t) ==
    /\ th[t].pc = "handlePodDelete"
    /\ Call(t, "stopCapture", th[t].pod, 0)
    /\ UNCHANGED <<captures, mu, proc, mon, files, shutdown, elapsed, hist, last>>

NextInformer ==
    \/ \E t \in Workers : informerAdd(t)
    \/ \E t \in Workers : informerUpdate(t)
    \/ \E t \in Workers : informerDelete(t)
    \/ \E t \in Workers : handlePodAddBody(t)
    \/ \E t \in Workers : handlePodUpdateBody(t)
    \/ \E t \in Workers : handlePodDeleteBody(t)
    \/ \E t \in Workers : processPodLocked(t)
    \/ \E t \in Workers : startCaptureInternal(t)
    \/ \E t \in Workers : stopCapture(t)
    \/ \E t \in Threads : stopWaiter(t)
    \/ \E t \in Threads : selectDone(t)
    \/ \E t \in Threads : selectTimeout(t)
    \/ \E t \in Threads : killedDone(t)
    \/ \E t \in Threads : stopCaptureInternal(t)
    \/ Shutdown
    \/ ShutdownLock
    \/ ShutdownRange
    \/ \E p \in Procs : monitorWait(p)
    \/ \E p \in Procs : monitorDelete(p)
    \/ \E p \in Procs : ProcExit(p)

SpecInformer == Init /\ [][NextInformer]_vars

----------------------------------------------------------------------------
(* Fair scheduling.  The Go scheduler runs every goroutine that can take a
   step, so a step of a stop or of a monitor that stays possible is taken;
   time passes, so a timer that is running fires; and a process that was sent
   SIGKILL exits.  Nothing obliges the informer to deliver events, a handler to
   be called, or a process to exit on its own or on SIGTERM. *)

StopThreads == {"w1", "sd"}

\* SIGKILL cannot be caught or ignored: the process exits
KilledExit(p) == proc[p].kill /\ ProcExit(p)

Fair ==
    /\ \A t \in StopThreads :
          /\ WF_vars(stopWaiter(t))
          /\ WF_vars(selectDone(t))
          /\ WF_vars(selectTimeout(t))
          /\ WF_vars(killedDone(t))
          /\ WF_vars(stopCaptureInternal(t))
    /\ \A p \in Procs : WF_vars(KilledExit(p))

SpecFair == Spec /\ Fair

\* The monitor goroutines as well: cmd.Wait() returns once the process has
\* exited, and sync.RWMutex hands the lock to a goroutine that keeps waiting
\* for it, as long as those that hold it go on to release it
FairMonitors ==
    /\ \A p \in Procs : WF_vars(monitorWait(p)) /\ SF_vars(monitorDelete(p))
    /\ \A t \in StopThreads : WF_vars(startCaptureInternal(t))
    /\ WF_vars(ShutdownRange)

SpecFairMonitors == Spec /\ Fair /\ FairMonitors

Fair003 ==
    /\ \A t \in StopThreads :
          /\ WF_vars(terminateProcessGroup(t))
          /\ WF_vars(terminateSigterm(t))
          /\ WF_vars(terminateDone(t))
          /\ WF_vars(terminateTimeout(t))
          /\ WF_vars(terminateKilled(t))
          /\ WF_vars(stopCaptureProcess(t))
    /\ \A p \in Procs : WF_vars(monitorWait003(p)) /\ WF_vars(KilledExit(p))

Spec003Fair == Spec003 /\ Fair003

----------------------------------------------------------------------------
(* Round trips on src/antrea-capture/controller.go: the only events are the
   add of a pod with a valid annotation, which starts a session for its key,
   and the delete of a pod that was added, which stops it. *)

\* The annotations that ask for a session
ValidAnnotations == {annotation \in Annotations : annotation # <<>> /\ ~Invalid(annotation)}

roundTripStart(t) ==
    /\ Idle(t)
    /\ \E pod \in Pods, annotation \in ValidAnnotations :
          /\ ~last[podKey(pod)].known
          /\ processPod(t, pod, annotation)
          /\ last' = Stored(podKey(pod), annotation)
    /\ UNCHANGED <<captures, mu, proc, mon, files, shutdown, elapsed, hist>>

roundTripStop(t) ==
    /\ Idle(t)
    /\ \E pod \in Pods :
          /\ last[podKey(pod)].known
          /\ Call(t, "stopCapture", pod, 0)
          /\ last' = [last EXCEPT ![podKey(pod)] = NotStored]
    /\ UNCHANGED <<captures, mu, proc, mon, files, shutdown, elapsed, hist>>

NextRoundTrip ==
    \/ \E t \in Workers : roundTripStart(t)
    \/ \E t \in Workers : roundTripStop(t)
    \/ \E t \in Workers : processPodLocked(t)
    \/ \E t \in Workers : startCaptureInternal(t)
    \/ \E t \in Workers : stopCapture(t)
    \/ \E t \in Workers : stopWaiter(t)
    \/ \E t \in Workers : selectDone(t)
    \/ \E t \in Workers : selectTimeout(t)
    \/ \E t \in Workers : killedDone(t)
    \/ \E t \in Workers : stopCaptureInternal(t)
    \/ \E p \in Procs : monitorWait(p)
    \/ \E p \in Procs : monitorDelete(p)
    \/ Environment

SpecRoundTrip == Init /\ [][NextRoundTrip]_vars

----------------------------------------------------------------------------
(* The end of stopCaptureInternal and cleanupFiles of
   src/antrea-capture/controller.go, os.Remove by os.Remove.  A removal can
   fail: the file is still there afterwards (no permission, a read-only file
   system) or was already gone when it was attempted.  The thread counts in
   `failed` what the code counts; `denied` and `gone` tell the two ways apart. *)

\* Files that may be on disk when a stop of a/p gets to its cleanup: two
\* rotation files of its process, and a file its pattern does not match
CleanupPaths ==
    { captureFile(<<"p">>) \o Itoa(0), captureFile(<<"p">>) \o Itoa(1),
      StrCapture \o <<"q">> \o StrPcap \o Itoa(0) }

\* filepath.Glob(prefix*): the matching names in lexical order (the names that
\* match differ in their rotation suffix, a digit string)
Glob(fs, prefix) ==
    LET names == {f[1] : f \in {g \in fs : GlobMatch(g[1], prefix)}}
        Suffix(n) == SubSeq(n, Len(prefix) + 1, Len(n))
        Before(a, b) ==
            \/ Len(Suffix(a)) < Len(Suffix(b)) /\ DigitsValue(Suffix(a)) <= DigitsValue(Suffix(b))
            \/ DigitsValue(Suffix(a)) < DigitsValue(Suffix(b))
        RECURSIVE Sorted(_)
        Sorted(ns) ==
            IF ns = {} THEN <<>>
            ELSE LET first == CHOOSE n \in ns : \A m \in ns \ {n} : Before(n, m)
                 IN  <<first>> \o Sorted(ns \ {first})
    IN  Sorted(names)

\* A stop has left its select: the process has exited and been waited for, the
\* stopping thread (a handler, or Shutdown in its loop) holds c.mu
InitCleanup ==
    /\ \E t \in {"w1", "sd"} :
          /\ th = [u \in {"w1", "sd"} |->
                     IF u = t
                     THEN [IdleThread EXCEPT !.pc = "delete", !.key = <<"a", "/", "p">>,
                                             !.cap = 1, !.done = TRUE]
                     ELSE IdleThread]
          /\ mu = t
          /\ shutdown = (t = "sd")
    /\ captures = [k \in PodKeys |-> IF k = <<"a", "/", "p">> THEN 1 ELSE 0]
    /\ proc = [p \in Procs |->
                 IF p = 1
                 THEN [key |-> <<"a", "/", "p">>, mf |-> 2, path |-> captureFile(<<"p">>),
                       st |-> "reaped", term |-> FALSE, kill |-> FALSE, nw |-> 0]
                 ELSE NoProc]
    /\ mon = [p \in Procs |-> IF p = 1 THEN "lock" ELSE "none"]
    /\ files \in SUBSET {<<path, 1>> : path \in CleanupPaths}
    /\ elapsed = 0
    /\ last = [k \in PodKeys |-> NotStored]
    /\ hist = [p \in Procs |-> IF p = 1 THEN [NoHist EXCEPT !.closed = 1] ELSE NoHist]

\* delete(c.captures, podName); cleanupFiles up to its loop: the glob, and the
\* return when nothing matches
cleanupBegin(t) ==
    /\ th[t].pc = "delete"
    /\ captures' = [captures EXCEPT ![th[t].key] = 0]
    /\ hist' = Deleted(hist, th[t].key, "stop")
    /\ LET podName == SubSeq(th[t].key, LastIndex(th[t].key, "/") + 1, Len(th[t].key))
           matches == Glob(files, StrCapture \o podName \o StrPcap)
       IN  th' = [th EXCEPT ![t].matches = matches, ![t].matched = Len(matches),
                            ![t].pc = IF matches = <<>> THEN "return" ELSE "remove"]
    /\ UNCHANGED <<mu, proc, mon, files, shutdown, elapsed, last>>

cleanupRemove_StopAtFailure(t) ==
    /\ th[t].pc = "remove"
    /\ LET f == Head(th[t].matches)
           there == \E g \in files : g[1] = f
       IN  \/ /\ there
              /\ files' = {g \in files : g[1] # f}
              /\ th' = [th EXCEPT ![t].matches = Tail(@),
                                   ![t].pc = IF Tail(th[t].matches) = <<>> THEN "report" ELSE "remove"]
           \/ /\ files' = files
              /\ th' = [th EXCEPT ![t].failed = @ + 1, ![t].pc = "report",
                                   ![t].denied = IF there THEN @ + 1 ELSE @,
                                   ![t].gone = IF there THEN @ ELSE @ + 1]
    /\ UNCHANGED <<captures, mu, proc, mon, shutdown, elapsed, hist, last>>

\* One round of the loop: os.Remove(f) removes the file, or fails (failed++)
\* because it may not be removed or because it is not there any more
cleanupRemove(t) ==
    /\ th[t].pc = "remove"
    /\ LET f == Head(th[t].matches)
           there == \E g \in files : g[1] = f
           next == IF Tail(th[t].matches) = <<>> THEN "report" ELSE "remove"
       IN  \/ /\ there
              /\ files' = {g \in files : g[1] # f}
              /\ th' = [th EXCEPT ![t].matches = Tail(@), ![t].pc = next]
           \/ /\ files' = files
              /\ th' = [th EXCEPT ![t].matches = Tail(@), ![t].pc = next,
                                   ![t].failed = @ + 1,
                                   ![t].denied = IF there THEN @ + 1 ELSE @,
                                   ![t].gone = IF there THEN @ ELSE @ + 1]
    /\ UNCHANGED <<captures, mu, proc, mon, shutdown, elapsed, hist, last>>

\* klog.Infof("Deleted %d/%d capture files ...", len(matches)-failed, len(matches))
cleanupReport(t) ==
    /\ th[t].pc = "report"
    /\ th' = Goto(t, "return")
    /\ UNCHANGED <<captures, mu, proc, mon, files, shutdown, elapsed, hist, last>>

\* Back in the caller: the deferred Unlock of stopCapture, or the next round of
\* Shutdown's loop
cleanupReturn(t) ==
    /\ th[t].pc = "return"
    /\ hist' = [hist EXCEPT ![th[t].cap].cleaned = @ + 1]
    /\ IF t = "sd"
       THEN /\ th' = [th EXCEPT ![t] = [IdleThread EXCEPT !.pc = "range"]]
            /\ mu' = mu
       ELSE /\ th' = Return(t)
            /\ mu' = "none"
    /\ UNCHANGED <<captures, proc, mon, files, shutdown, elapsed, last>>

\* A file on disk goes away under the cleanup's feet
FileVanishes ==
    /\ \E f \in files : files' = files \ {f}
    /\ UNCHANGED <<captures, mu, th, proc, mon, shutdown, elapsed, hist, last>>

NextCleanup ==
    \/ \E t \in StopThreads : cleanupBegin(t)
    \/ \E t \in StopThreads : cleanupRemove(t)
    \/ \E t \in StopThreads : cleanupReport(t)
    \/ \E t \in StopThreads : cleanupReturn(t)
    \/ ShutdownRange
    \/ \E p \in Procs : monitorDelete(p)
    \/ FileVanishes

FairCleanup ==
    /\ \A t \in StopThreads :
          /\ WF_vars(cleanupBegin(t)) /\ WF_vars(cleanupRemove(t))
          /\ WF_vars(cleanupReport(t)) /\ WF_vars(cleanupReturn(t))
    /\ WF_vars(ShutdownRange)

SpecCleanup == InitCleanup /\ [][NextCleanup]_vars /\ FairCleanup

----------------------------------------------------------------------------
(* Replay: the same add delivered again and again, two handler goroutines at
   once, for src/antrea-capture/controller.go and for src/unnamed/part_000 *)

\* The annotation of the replayed event
Replayed == <<"2">>

InitReplay ==
    /\ captures = [k \in PodKeys |-> 0]
    /\ mu = "none"
    /\ th = [t \in {"w1", "w2", "sd"} |-> IdleThread]
    /\ proc = [p \in Procs |-> NoProc]
    /\ mon = [p \in Procs |-> "none"]
    /\ files = {}
    /\ shutdown = FALSE
    /\ elapsed = 0
    /\ last = [k \in PodKeys |-> NotStored]
    /\ hist = [p \in Procs |-> NoHist]

replayAdd(t) ==
    /\ Idle(t)
    /\ \E pod \in Pods : processPod(t, pod, Replayed)
    /\ UNCHANGED <<captures, mu, proc, mon, files, shutdown, elapsed, hist, last>>

NextReplay ==
    \/ \E t \in Workers : replayAdd(t)
    \/ \E t \in Workers : processPodLocked(t)
    \/ \E t \in Workers : startCaptureInternal(t)
    \/ \E p \in Procs : monitorWait(p)
    \/ \E p \in Procs : monitorDelete(p)
    \/ Environment

SpecReplay == InitReplay /\ [][NextReplay]_vars

replayAdd000(t) ==
    /\ Idle(t)
    /\ \E pod \in Pods : processPod000(t, pod, Replayed)
    /\ UNCHANGED <<captures, mu, proc, mon, files, shutdown, elapsed, hist, last>>

NextReplay000 ==
    \/ \E t \in Workers : replayAdd000(t)
    \/ \E t \in Workers : processPodRLocked000(t)
    \/ \E t \in Workers : startCaptureLock000(t)
    \/ \E t \in Workers : startCapture000(t)
    \/ \E p \in Procs : monitorWait000(p)
    \/ \E p \in Procs : monitorDelete000(p)
    \/ Environment

SpecReplay000 == InitReplay /\ [][NextReplay000]_vars

replayAdd003(t) ==
    /\ Idle(t)
    /\ \E pod \in Pods : Call(t, "onPodAddOrUpdate", pod, Atoi(Replayed).val)
    /\ UNCHANGED <<captures, mu, proc, mon, files, shutdown, elapsed, hist, last>>

NextReplay003 ==
    \/ \E t \in Workers : replayAdd003(t)
    \/ \E t \in Workers : onPodAddOrUpdateLocked(t)
    \/ \E t \in Workers : startCapture(t)
    \/ \E t \in Workers : startCaptureRegister(t)
    \/ \E p \in Procs : monitorWait003(p)
    \/ \E p \in Procs : monitorDelete003(p)
    \/ Environment

SpecReplay003 == InitReplay /\ [][NextReplay003]_vars

----------------------------------------------------------------------------
(* controller.go with the two forms in which the informer hands a deleted    *)
(* pod to DeleteFunc: the pod itself, or a cache.DeletedFinalStateUnknown     *)
(* that holds it                                                              *)

\* The informer calls handlePodDelete(obj)
deleteEvent(t) ==
    /\ Idle(t)
    /\ \E pod \in Pods, tombstone \in BOOLEAN :
          th' = [th EXCEPT ![t] = [IdleThread EXCEPT !.pc = "handlePodDelete", !.key = podKey(pod),
                                                    !.pod = pod, !.tomb = tombstone]]
    /\ UNCHANGED <<captures, mu, proc, mon, files, shutdown, elapsed, hist, last>>

\* A panic in a handler goroutine ends the agent: every goroutine is gone,
\* the tcpdump processes, each in a process group of its own, live on
Panicked ==
    /\ th' = [u \in DOMAIN th |-> [IdleThread EXCEPT !.pc = "panic"]]
    /\ mon' = [p \in Procs |-> "none"]

\* handlePodDelete: pod := obj.(*corev1.Pod) panics unless obj is a pod; the
\* test for a tombstone comes after it
handlePodDeleteObj(t) ==
    /\ th[t].pc = "handlePodDelete"
    /\ IF th[t].tomb
       THEN Panicked
       ELSE Call(t, "stopCapture", th[t].pod, 0) /\ mon' = mon
    /\ UNCHANGED <<captures, mu, proc, files, shutdown, elapsed, hist, last>>

NextDelete ==
    \/ \E t \in Workers : handlePodAdd(t)
    \/ \E t \in Workers : handlePodUpdate(t)
    \/ \E t \in Workers : deleteEvent(t)
    \/ \E t \in Workers : handlePodDeleteObj(t)
    \/ \E t \in Workers : processPodLocked(t)
    \/ \E t \in Workers : startCaptureInternal(t)
    \/ \E t \in Workers : stopCapture(t)
    \/ \E t \in Threads : stopWaiter(t)
    \/ \E t \in Threads : selectDone(t)
    \/ \E t \in Threads : selectTimeout(t)
    \/ \E t \in Threads : killedDone(t)
    \/ \E t \in Threads : stopCaptureInternal(t)
    \/ Shutdown
    \/ ShutdownLock
    \/ ShutdownRange
    \/ \E p \in Procs : monitorWait(p)
    \/ \E p \in Procs : monitorDelete(p)
    \/ Environment

SpecDelete == Init /\ [][NextDelete]_vars

----------------------------------------------------------------------------
(* processPod's reading of the annotation, on every short value *)

AnnotationChars == {"0", "1", "2", "+", "-", "x"}

\* pod.Annotations[annotationKey]: "" when the annotation is absent
AnnotationStrings == UNION { [1..n -> AnnotationChars] : n \in 0..MaxLen }

\* handlePodAdd has been called with a pod that carries the annotation
InitExtract ==
    /\ captures = [k \in PodKeys |-> 0]
    /\ mu = "none"
    /\ proc = [p \in Procs |-> NoProc]
    /\ mon = [p \in Procs |-> "none"]
    /\ files = {}
    /\ shutdown = FALSE
    /\ elapsed = 0
    /\ hist = [p \in Procs |-> NoHist]
    /\ \E pod \in Pods, annotation \in AnnotationStrings :
          /\ th = [t \in {"w1", "sd"} |->
                     IF t = "w1"
                     THEN [IdleThread EXCEPT !.pc = "handlePodAdd", !.key = podKey(pod),
                                             !.pod = pod, !.ann = annotation]
                     ELSE IdleThread]
          /\ last = [k \in PodKeys |->
                       IF k = podKey(pod) THEN [known |-> TRUE, ann |-> annotation]
                       ELSE NotStored]

NextExtract == \E t \in Workers : handlePodAddBody(t)

SpecExtract == InitExtract /\ [][NextExtract]_vars

----------------------------------------------------------------------------
(* Properties *)

\* The session of process p is over: exited, reaped, its monitor finished, no stop of it under way
Terminated(p) ==
    /\ proc[p].st = "reaped"
    /\ mon[p] = "done"
    /\ \A t \in Threads : th[t].cap # p /\ p \notin th[t].todo

\* C1: the monitor of a process, when it removes the registry entry of its key
\* after the exit, leaves alone every entry that holds another process instance.
C1_MonitorSparesNewerSession ==
    [][\A p \in Procs :
          (mon[p] = "lock" /\ mon'[p] = "done") =>
              \A k \in PodKeys : captures[k] # p => captures'[k] = captures[k]]_vars

\* C2: for every key, at most one capture process started for it is live.
C2_AtMostOneLiveProcessPerKey ==
    \A k \in PodKeys : Cardinality({p \in Procs : proc[p].key = k /\ Live(p)}) <= 1

\* C3: no process is still running once a stop has deleted its session from the registry.
C3_StopDeletesOnlyExited ==
    \A p \in Procs : hist[p].removedBy = "stop" => ~Live(p)

\* C4: every session that has terminated has had its artifacts cleaned exactly once.
C4_CleanupExactlyOnce ==
    \A p \in Procs : Terminated(p) => hist[p].cleaned = 1

\* C5: a stop reaches its end (the deletion of the session, the cleanup, the
\* return) only when its process has exited, on the SIGKILL path too.
C5_StopEndsAfterExit ==
    \A t \in Threads : th[t].pc = "finish" => ~Live(th[t].cap)

\* C6: a thread that is spawning tcpdump, or blocked in a stop's wait for the
\* exit, does not own the registry lock.
C6_NoLockAcrossSpawnOrWait ==
    \A t \in Threads : th[t].pc \in {"spawn", "select", "killed"} => mu # t

\* C7: while a stop of one key waits out its grace period, a handler that has a
\* reconcile of another key to do can take its next step.
C7_OtherKeyNotStalled ==
    \A t1 \in Threads, t2 \in Workers :
        ( /\ t1 # t2
          /\ th[t1].pc = "select"
          /\ th[t2].pc \in {"stopCapture", "processPod"}
          /\ th[t2].key # th[t1].key )
        => ENABLED (stopCapture(t2) \/ processPodLocked(t2))

\* C8: a reconcile that finds the key's session registered with another rotation
\* count leaves, when it returns, a session with the new count registered.
C8_SpecChangeReplaces ==
    [][\A t \in Workers :
          ( /\ th[t].pc # "idle" /\ th'[t].pc = "idle"
            /\ th[t].mf > 0
            /\ captures[th[t].key] # 0
            /\ proc[captures[th[t].key]].mf # th[t].mf )
          => ( /\ captures'[th[t].key] # 0
               /\ proc'[captures'[th[t].key]].mf = th[t].mf )]_vars

\* C9: a file that a cleanup deletes was written by a session of the key being cleaned.
C9_CleanupSparesOtherKeys ==
    [][\A f \in files :
          (\A g \in files' : g[1] # f[1]) =>
              \E t \in Threads :
                  th[t].pc \in {"finish", "glob"} /\ th[t].key = proc[f[2]].key]_vars

\* C10: Shutdown returns within one grace period of waiting, however many sessions it drains.
C10_DrainWithinOneGracePeriod ==
    th["sd"].pc = "returned" => elapsed <= GracePeriod

\* C11: when Shutdown returns, the registry is empty and every session that was
\* registered when Shutdown was called has its process exited and its artifacts cleaned.
C11_ShutdownDrainsAll ==
    [][(th["sd"].pc # "returned" /\ th'["sd"].pc = "returned") =>
          /\ \A k \in PodKeys : captures'[k] = 0
          /\ \A p \in Procs : hist[p].drain => (Exited(p) /\ hist[p].cleaned >= 1)]_vars

\* C12: the same add delivered again, after or during the first delivery, leaves
\* one capture process and one session for the key: a process is spawned only
\* for a key that has no session, and becomes that key's session; a delivery
\* that finds the key occupied changes nothing.
C12_ReplaySpawnsOnce ==
    [][/\ \A p \in Procs :
             (proc[p].st = "none" /\ proc'[p].st = "running")
                 => (captures[proc'[p].key] = 0 /\ captures'[proc'[p].key] = p)
       /\ \A t \in Workers :
             (th[t].pc # "idle" /\ th'[t].pc = "idle" /\ th[t].mf > 0 /\ captures[th[t].key] # 0)
                 => UNCHANGED <<captures, proc, mon, files>>]_vars

\* Two deliveries for one key are past the first look-up, and one has registered its process
C12_Witness ==
    \E t1 \in Workers, t2 \in Workers :
        /\ t1 # t2
        /\ th[t1].pc = "idle"
        /\ th[t2].pc = "startCapture"
        /\ captures[th[t2].key] # 0
        /\ Live(captures[th[t2].key])

\* C13: a stop leaves no entry for its key, the process it stopped exited and
\* that process's files gone; a stop that finds no session (the second of two)
\* changes nothing; and no stop channel is ever closed a second time (a panic).
C13_StopTwiceAsOnce ==
    [][/\ \A t \in Workers :
             (th[t].pc # "idle" /\ th'[t].pc = "idle" /\ th[t].mf = 0) =>
                 /\ captures'[th[t].key] = 0
                 /\ th[t].cap # 0 =>
                        (Exited(th[t].cap) /\ \A f \in files' : f[2] # th[t].cap)
                 /\ th[t].cap = 0 => UNCHANGED <<captures, proc, mon, files, hist>>
       /\ \A p \in Procs : hist'[p].closed <= 1]_vars

\* A stop of a key is called when an earlier stop has already ended that key's session
C13_Witness ==
    \E t \in Workers, p \in Procs :
        /\ th[t].pc = "stopCapture"
        /\ proc[p].key = th[t].key
        /\ hist[p].removedBy = "stop"
        /\ hist[p].cleaned = 1
        /\ captures[th[t].key] = 0

\* C14: a handler called with an invalid annotation for a key that has a session
\* goes on as one called with the annotation removed does: it calls the stop of
\* the key, with nothing to start.
C14_InvalidAsRemoved ==
    [][\A t \in Workers :
          (th[t].pc \in {"processPodMain", "handlePodAdd", "handlePodUpdate"}
              /\ Invalid(th[t].ann) /\ captures[th[t].key] # 0 /\ th'[t] # th[t])
          => th'[t] = [IdleThread EXCEPT !.pc = "stopCapture", !.key = th[t].key,
                                         !.pod = th[t].pod]]_vars

\* C15: a handler that found no desired state and a session for the key ends its
\* stop with the session's process exited, and that step removes the entry and
\* leaves no file written for the key.
C15_StopThenClean ==
    [][\A t \in Workers :
          (th[t].pc = "finish" /\ th'[t].pc = "idle" /\ th[t].mf = 0) =>
              /\ captures[th[t].key] = th[t].cap
              /\ Exited(th[t].cap)
              /\ proc'[th[t].cap] = proc[th[t].cap]
              /\ captures'[th[t].key] = 0
              /\ \A f \in files' : proc[f[2]].key # th[t].key]_vars

C15_Witness ==
    \E p \in Procs :
        /\ ~shutdown
        /\ hist[p].removedBy = "stop" /\ hist[p].cleaned = 1
        /\ Exited(p) /\ proc[p].nw = 0
        /\ captures[proc[p].key] = 0
        /\ \A t \in Workers : th[t].pc = "idle"
        /\ \A f \in files : proc[f[2]].key # proc[p].key

\* No handler is at work, the informer runs, and no monitor has a delete to make
Settled ==
    /\ ~shutdown
    /\ \A t \in Workers : th[t].pc = "idle"
    /\ \A p \in Procs : mon[p] \in {"none", "done"} \/ (mon[p] = "wait" /\ Live(p))

\* C16: when the events have been handled, a key whose last event asked for no
\* session has no entry, and a key whose last event carried a valid annotation
\* and that has an entry has a session with the annotated rotation count.
C16_RegistryMatchesLastEvent ==
    Settled =>
        \A k \in PodKeys :
            /\ Desired(k) = 0 => captures[k] = 0
            /\ (Desired(k) > 0 /\ captures[k] # 0) => proc[captures[k]].mf = Desired(k)

\* No capture process has ever been started for the key
NeverStarted(k) == \A p \in Procs : proc[p].key # k

\* C17: a handler called for a key whose starts have all failed, with the valid
\* annotation the pod already had (an update re-delivered by the informer) or
\* with an add, goes on to attempt the start.
C17_NextEventRetries ==
    [][\A t \in Workers :
          (/\ th[t].pc \in {"handlePodAdd", "handlePodUpdate"}
           /\ ~Invalid(th[t].ann) /\ th[t].ann # <<>>
           /\ th[t].pc = "handlePodUpdate" => th[t].old = th[t].ann
           /\ NeverStarted(th[t].key)
           /\ th'[t] # th[t])
          => th'[t].pc = "processPod"]_vars

\* C18: a start that creates no process leaves the registry, the monitors and
\* the processes as they were: nothing is registered for the key, no monitor
\* is started, and the other keys keep their entries and processes.
C18_SpawnFailureRegistersNothing ==
    [][\A t \in Workers :
          (/\ th[t].pc = "spawn" /\ th'[t].pc = "idle"
           /\ \A p \in Procs : proc[p].st = "none" => proc'[p].st = "none")
          => (captures' = captures /\ mon' = mon /\ proc' = proc)]_vars

C18_Witness ==
    \E k \in PodKeys, other \in PodKeys :
        /\ last[k].known /\ Desired(k) > 0
        /\ NeverStarted(k) /\ captures[k] = 0
        /\ \A t \in Workers : th[t].pc = "idle"
        /\ other # k /\ captures[other] # 0 /\ Live(captures[other])
        /\ mon[captures[other]] = "wait"

Stopping(t) == th[t].pc \in {"terminate", "sigterm", "select", "killed", "finish", "glob"}

\* A step of the stop of thread t, or the exit of the process it has killed
StopProgress(t) ==
    \/ stopWaiter(t) \/ selectDone(t) \/ selectTimeout(t) \/ killedDone(t)
    \/ stopCaptureInternal(t) \/ KilledExit(th[t].cap)

C21_SelfExitUnregisters ==
    /\ \A p \in Procs :
          (Exited(p) /\ \E k \in PodKeys : captures[k] = p) ~> (\A k \in PodKeys : captures[k] # p)
    /\ [][\A p \in Procs :
             (mon[p] = "lock" /\ mon'[p] = "done" /\ captures[proc[p].key] = p)
             => captures'[proc[p].key] = 0]_vars

C21_Witness ==
    \E p \in Procs, q \in Procs :
        /\ hist[p].removedBy = "monitor" /\ hist[p].closed = 0
        /\ mon[p] = "done"
        /\ q # p /\ captures[proc[p].key] = q /\ Live(q)

\* C22: when the stop that follows the start of a key returns, the key has no
\* entry, every process started for it has exited, and no file that such a
\* process wrote is left on disk.
C22_RoundTripLeavesNothing ==
    [][\A t \in Workers :
          (th[t].pc # "idle" /\ th'[t].pc = "idle" /\ th[t].mf = 0) =>
              /\ captures'[th[t].key] = 0
              /\ \A p \in Procs : proc'[p].key = th[t].key => ~(proc'[p].st = "running")
              /\ \A f \in files' : proc'[f[2]].key # th[t].key]_vars

\* C23: the entry is gone before the first removal is attempted; the loop over
\* the matches ends only with its last match attempted, whatever failed; and
\* the stop returns to the handler, and Shutdown's drain to its caller.
C23_CleanupFailureBlocksNothing ==
    /\ [](\A t \in StopThreads :
             th[t].pc \in {"remove", "report", "return"} => captures[th[t].key] = 0)
    /\ [][\A t \in StopThreads :
             (th[t].pc = "remove" /\ th'[t].pc # "remove")
             => (Len(th[t].matches) = 1 /\ th'[t].matches = <<>>)]_vars
    /\ \A t \in StopThreads : (th[t].pc = "delete") ~> (th[t].pc \in {"idle", "returned"})

C23_Witness ==
    /\ th["sd"].pc = "returned"
    /\ hist[1].cleaned = 1
    /\ \A k \in PodKeys : captures[k] = 0
    /\ cleanupFiles(files, proc[1].key) # files

\* C30: in the counts cleanupFiles reports, deleted plus failed is the number
\* of matches, and failed counts only the removals of files that were there.
C30_CleanupCounts ==
    \A t \in StopThreads :
        th[t].pc = "report" =>
            LET deleted == th[t].matched - th[t].failed
            IN  /\ deleted + th[t].failed = th[t].matched
                /\ th[t].failed = th[t].denied

\* C24: a handler that holds a valid annotation and finds no entry for the key
\* goes on to start; and a start that creates a process creates one only, for
\* a key with no entry, with the rotation count of the annotation and the
\* output path built from the key's name, and registers it under the key with
\* its monitor.
C24_StartSpawnsAsAnnotated ==
    /\ [][\A t \in Workers :
             (th[t].pc = "processPod" /\ th'[t].pc # "processPod" /\ captures[th[t].key] = 0)
             => (th'[t].pc = "spawn" /\ th'[t].mf = Desired(th[t].key))]_vars
    /\ [][\A p \in Procs :
             (proc[p].st = "none" /\ proc'[p].st = "running") =>
                 LET k == proc'[p].key
                     podName == SubSeq(k, LastIndex(k, "/") + 1, Len(k))
                 IN  /\ k \in PodKeys
                     /\ captures[k] = 0 /\ captures'[k] = p
                     /\ Desired(k) > 0 /\ proc'[p].mf = Desired(k)
                     /\ proc'[p].path = StrCapture \o podName \o StrPcap
                     /\ mon'[p] = "wait"
                     /\ \A q \in Procs \ {p} : proc'[q] = proc[q] /\ mon'[q] = mon[q]
                     /\ \A j \in PodKeys \ {k} : captures'[j] = captures[j]]_vars

C24_Witness ==
    \E k \in PodKeys :
        /\ last[k].known /\ last[k].ann = <<"2">>
        /\ captures[k] # 0 /\ Live(captures[k])
        /\ proc[captures[k]].mf = 2 /\ proc[captures[k]].key = k
        /\ \A t \in Workers : th[t].pc = "idle"

\* The decimal numeral of n, most significant digit first
RECURSIVE Decimal(_)
Decimal(n) == IF n < 10 THEN <<Digits[n + 1]>> ELSE Decimal(n \div 10) \o <<Digits[(n % 10) + 1]>>

\* s is a way of writing the integer n > 0: an optional plus sign, leading zeros, the numeral
Denotes(s, n) ==
    \E sign \in {<<>>, <<"+">>}, z \in 0..MaxLen :
        s = sign \o [i \in 1..z |-> "0"] \o Decimal(n)

\* C25: processPod goes on with a capture of maxFiles files exactly when the
\* annotation value is a way of writing an integer greater than zero, and
\* maxFiles is then that integer; for every other value, the absent or empty
\* one, a non-numeric one, zero and a negative integer among them, it goes to
\* stop the capture, with no spec.
C25_SpecIffPositiveInteger ==
    \A t \in Workers :
        LET annotation == last[th[t].key].ann
            written == {n \in 1..(10^MaxLen - 1) : Denotes(annotation, n)}
        IN  /\ th[t].pc = "processPod" => (written # {} /\ th[t].mf \in written)
            /\ th[t].pc = "stopCapture" => (written = {} /\ th[t].mf = 0)
            /\ th[t].pc \in {"handlePodAdd", "processPod", "stopCapture"}

C25_Witness ==
    /\ th["w1"].pc = "processPod" /\ th["w1"].mf = 12
    /\ last[th["w1"].key].ann = <<"+", "1", "2">>

\* C26: a handler that holds a valid annotation and finds, under the lock, a
\* session of the same maxFiles registered for the key returns at once: no
\* process is signalled, started or reaped, no monitor moves, no file is
\* deleted and the registry stays as it is.
C26_SameSpecIsNoOp ==
    [][\A t \in Workers :
          (/\ th[t].pc \in {"processPod", "onPodAddOrUpdate"}
           /\ th'[t] # th[t]
           /\ captures[th[t].key] # 0
           /\ proc[captures[th[t].key]].mf = th[t].mf)
          => (th'[t] = IdleThread /\ UNCHANGED <<captures, proc, mon, files, mu>>)]_vars

C26_Witness ==
    \E t \in Workers :
        /\ th[t].pc = "onPodAddOrUpdate" /\ mu = "none"
        /\ captures[th[t].key] # 0 /\ Live(captures[th[t].key])
        /\ proc[captures[th[t].key]].mf = th[t].mf
        /\ \E f \in files : f[2] = captures[th[t].key]

\* C27: a handler that has no capture to ask for, or was called for a deleted
\* pod, only goes to the stop of the key; and a stop that finds no session
\* registered for its key returns at once, leaving the registry, every process
\* and monitor, and every file, those of other keys too, as they were.
C27_StopOfNothingIsNoOp ==
    [][\A t \in Workers :
          /\ (th[t].pc = "stopCapture" /\ th'[t] # th[t] /\ captures[th[t].key] = 0)
             => (th'[t] = IdleThread /\ UNCHANGED <<captures, proc, mon, files, mu, hist>>)
          /\ (th[t].pc = "idle" /\ th'[t].pc = "stopCapture")
             => UNCHANGED <<captures, proc, mon, files, mu, hist>>]_vars

\* A stop is about to look up a key that has no session, while the pod of the
\* same name in the other namespace has a session with a file on disk
C27_Witness ==
    \E t \in Workers, p \in Procs :
        /\ th[t].pc = "stopCapture" /\ mu = "none"
        /\ captures[th[t].key] = 0
        /\ Live(p) /\ captures[proc[p].key] = p /\ proc[p].key # th[t].key
        /\ \E f \in files : f[2] = p

C31_NothingOutlivesShutdown ==
    th["sd"].pc = "returned" =>
        /\ \A k \in PodKeys : captures[k] = 0
        /\ \A p \in Procs : ~Live(p)

\* C32: a stop sends SIGTERM, and SIGKILL, to the process group of its session
\* only while the session's process has not been reaped, that is, while the
\* recorded pid is still the pid of that process.
C32_NoSignalAfterReap ==
    [][\A t \in Threads :
          /\ (th[t].pc # "select" /\ th'[t].pc = "select")
             => proc[th'[t].cap].st # "reaped"
          /\ (th[t].pc = "select" /\ th'[t].pc = "killed")
             => proc[th[t].cap].st # "reaped"]_vars

\* C33: the cleanup that ends the stop of a session deletes no file written by
\* a process that was started for the same key after the stopped one.
C33_CleanupSparesNewerSession ==
    [][\A t \in Threads :
          (th[t].pc = "glob" /\ th'[t].pc # "glob") =>
              \A f \in files \ files' :
                  ~(f[2] > th[t].cap /\ proc[f[2]].key = proc[th[t].cap].key)]_vars

\* C34: no handler panics, and handlePodDelete, given the deleted pod itself
\* or a tombstone that holds it, goes on to the stop of that pod's key.
C34_DeleteStopsWithoutCrash ==
    /\ [](\A t \in Threads : th[t].pc # "panic")
    /\ [][\A t \in Workers :
             (th[t].pc = "handlePodDelete" /\ th'[t] # th[t])
             => (th'[t].pc = "stopCapture" /\ th'[t].key = th[t].key)]_vars

\* Some goroutine of the controller is in the middle of a reconcile, a stop or
\* Shutdown, or a monitor has its process's exit to act on
Waiting ==
    \/ \E t \in Threads : th[t].pc \notin {"idle", "returned"}
    \/ \E p \in Procs : mon[p] = "lock" \/ (mon[p] = "wait" /\ Exited(p))

\* A step of one of them, or the exit of a process that has been signalled
Proceeds ==
    \/ \E t \in Workers : processPodLocked(t) \/ startCaptureInternal(t) \/ stopCapture004(t)
    \/ \E t \in Threads : stopWaiter(t) \/ selectDone(t) \/ selectTimeout004(t)
                               \/ killedDone(t) \/ stopCaptureInternal004(t)
    \/ ShutdownLock \/ ShutdownRange004
    \/ \E p \in Procs : monitorWait(p) \/ monitorDelete004(p)
    \/ \E p \in Procs : (proc[p].term \/ proc[p].kill) /\ ProcExit(p)

C36_StopChannelClosedOnce == \A p \in Procs : hist[p].closed <= 1

\* A stop has closed the channel and ended the session, and the session's
\* monitor has since run to its end
C36_Witness ==
    \E p \in Procs :
        /\ hist[p].closed = 1 /\ hist[p].removedBy = "stop"
        /\ mon[p] = "done" /\ proc[p].st = "reaped"

=============================================================================
